---- MODULE Spec2Model ----
(***************************************************************************)
(* Model of squarespace.py: the Squarespace order-API client.              *)
(*                                                                         *)
(* A "run" is one thread of control calling methods of a client; a client  *)
(* holds the pagination cursor (_next_page) and max_pages.  Every HTTP     *)
(* call is two steps: the method builds and sends the request, and the     *)
(* response arrives and is processed.  The server is either arbitrary     *)
(* (each response is drawn from a bounded set) or serves a fixed listing   *)
(* of pages of orders, chained by cursors.                                 *)
(***************************************************************************)
EXTENDS Integers, Sequences, FiniteSets, TLC

VARIABLES server, client_of, _next_page, max_pages, pc, op, req, orders, count, http, log, ret

vars == <<server, client_of, _next_page, max_pages, pc, op, req, orders, count, http, log, ret>>

(***************************************************************************)
(* Bounds of the model.                                                    *)
(***************************************************************************)
\* all_orders() is only started while max_pages <= MaxPagesBound
MaxPagesBound == 2
\* status codes the classifier is exercised on: MinStatus..MaxStatus
MinStatus == 100
MaxStatus == 600
\* a listing served by the server has at most MaxListing pages
MaxListing == 4

(***************************************************************************)
(* Program constants.                                                      *)
(***************************************************************************)
api_baseurl == "https://api.squarespace.com"
api_version == "0.1"
DefaultMaxPages == 20

(***************************************************************************)
(* Python values.                                                          *)
(***************************************************************************)
None == "None"

\* Python truthiness of an optional string: None and '' are false
Truthy(x) == x # None /\ x # ""

Cursors == {"c1", "c2"}

\* orders as the API returns them: mappings with an id and an orderNumber
O1 == [id |-> "a", orderNumber |-> "1001"]
O2 == [id |-> "b", orderNumber |-> "1002"]
O3 == [id |-> "c", orderNumber |-> "1001"]

Pages == {<< >>, <<O1, O2>>, <<O3, O1>>}

OrderIds == {"X", "Y"}
OrderNumbers == {"1001", "1002", "1003"}

\* A response body.  kind "envelope": a JSON object with a pagination object
\* (has_cursor: whether it has the key nextPageCursor) and, when has_result,
\* a result list.  kind "order": a JSON object that is a single order (no
\* pagination key).  kind "text": a body that is not JSON.
Envelope(page, has, c) ==
    [kind |-> "envelope", has_cursor |-> has, nextPageCursor |-> c,
     has_result |-> TRUE, result |-> page]
NoResultBody ==
    [kind |-> "envelope", has_cursor |-> TRUE, nextPageCursor |-> "c1",
     has_result |-> FALSE, result |-> << >>]
OrderBody(o) ==
    [kind |-> "order", has_cursor |-> FALSE, nextPageCursor |-> None,
     has_result |-> FALSE, result |-> <<o>>]
TextBody ==
    [kind |-> "text", has_cursor |-> FALSE, nextPageCursor |-> None,
     has_result |-> FALSE, result |-> << >>]

Envelopes ==
    {Envelope(p, TRUE, c) : p \in Pages, c \in Cursors \cup {""}}
    \cup {Envelope(p, FALSE, None) : p \in Pages}

\* the responses the server gives in the client specifications
Responses ==
    [status_code : {200}, body : Envelopes \cup {NoResultBody, OrderBody(O1), TextBody}]
    \cup [status_code : {201}, body : {Envelope(<<O1, O2>>, TRUE, "c2")}]
    \cup [status_code : {202, 204, 401, 404, 500, 302}, body : {TextBody}]

\* the responses the classifier specification draws from: every status code
ClassifierResponses ==
    [status_code : MinStatus..MaxStatus,
     body : {Envelope(<<O1, O2>>, TRUE, "c1"), OrderBody(O1), TextBody}]

\* the listings of pages a server may hold
Listings == UNION {[1..n -> Pages] : n \in 0..MaxListing}

\* the cursor that names page k of a listing
CursorOf(k) == "p" \o ToString(k)

\* a server: mode "any" answers every request with any of Responses, mode
\* "every_status" with any of ClassifierResponses, mode "listing" serves pages
AnyServer == [mode |-> "any", pages |-> << >>]
EveryStatusServer == [mode |-> "every_status", pages |-> << >>]
ListingServer(l) == [mode |-> "listing", pages |-> l]

\* the page of the listing a request for commerce/orders asks for (0: none)
PageAsked(l, cursor) ==
    IF cursor = None THEN 1
    ELSE IF \E k \in 1..Len(l) : CursorOf(k) = cursor
    THEN CHOOSE k \in 1..Len(l) : CursorOf(k) = cursor
    ELSE 0

\* the answer of a server that holds listing l
ListingResponse(l, rq) ==
    IF rq.method = "POST" THEN [status_code |-> 204, body |-> TextBody]
    ELSE IF rq.path # "commerce/orders"
    THEN [status_code |-> 200, body |-> OrderBody(O1)]
    ELSE LET k == PageAsked(l, rq.cursor)
         IN  IF k = 1 /\ l = << >>
             THEN [status_code |-> 200, body |-> Envelope(<< >>, FALSE, None)]
             ELSE IF k = 0 THEN [status_code |-> 400, body |-> TextBody]
             ELSE IF k < Len(l)
             THEN [status_code |-> 200, body |-> Envelope(l[k], TRUE, CursorOf(k + 1))]
             ELSE [status_code |-> 200, body |-> Envelope(l[k], FALSE, None)]

(***************************************************************************)
(* Outcomes of a call: a returned value or a raised exception.             *)
(***************************************************************************)
Return(t, v) == [kind |-> "return", t |-> t, v |-> v]
Raise(exc, msg) == [kind |-> "raise", t |-> exc, v |-> msg]
NoOutcome == [kind |-> "none", t |-> "none", v |-> None]

ReturnNone == Return("none", None)
ReturnTrue == Return("bool", TRUE)

\* the exceptions of squarespace.py
ApiKeyError == Raise("ValueError", "The API key %s is not valid.")
UnexpectedSuccessError ==
    Raise("NotImplementedError", "Squarespace sent us a success response we are not prepared for!")
BogusRequestError == Raise("RuntimeError", "Squarespace thinks this request is bogus")
ServerProblemError == Raise("RuntimeError", "Squarespace is having problems, try later.")
UnknownError == Raise("RuntimeError", "An unknown error occurred fetching your request.")
SelectorError == Raise("SquarespaceError", "You must specify one of order_id or order_number")
\* exceptions raised by the interpreter and by requests
JSONDecodeError == Raise("ValueError", "JSONDecodeError")
NotSubscriptable == Raise("TypeError", "bool object is not subscriptable")
NotIterable == Raise("TypeError", "NoneType object is not iterable")
KeyErrorOf(k) == Raise("KeyError", k)

(***************************************************************************)
(* Log records of the logging module.                                      *)
(***************************************************************************)
LogEntry(level, kind, status, url, text) ==
    [level |-> level, kind |-> kind, status |-> status, url |-> url, text |-> text]
LogStatus(level, s) == LogEntry(level, "status", s, "", TextBody)
LogUrl(level, u) == LogEntry(level, "url", 0, u, TextBody)
LogText(level, b) == LogEntry(level, "text", 0, "", b)
LogMaxPages(n) == LogEntry("warning", "max_pages", n, "", TextBody)

(***************************************************************************)
(* Requests.                                                               *)
(***************************************************************************)
\* url = '%s/%s/%s' % (self.api_baseurl, self.api_version, path)
Url(path) == api_baseurl \o "/" \o api_version \o "/" \o path

\* the url of the request as sent: requests appends the query parameters
\* (a parameter whose value is None is dropped)
RequestUrl(path, cursor) ==
    IF cursor = None THEN Url(path) ELSE Url(path) \o "?cursor=" \o cursor

Request(method, path, cursor) ==
    [method |-> method, path |-> path, cursor |-> cursor, url |-> RequestUrl(path, cursor)]
NoRequest == [method |-> "none", path |-> "", cursor |-> None, url |-> ""]

\* an exchange of the history: the request with its response
Exchange(rq, resp) ==
    [method |-> rq.method, path |-> rq.path, cursor |-> rq.cursor, url |-> rq.url,
     status_code |-> resp.status_code, body |-> resp.body]

\* the responses the server may give to request rq
ServerResponses(rq) ==
    IF server.mode = "any" THEN Responses
    ELSE IF server.mode = "every_status" THEN ClassifierResponses
    ELSE {ListingResponse(server.pages, rq)}

(***************************************************************************)
(* The response classifier and the pure parts of the methods.              *)
(***************************************************************************)
\* request.json(): the parsed body, or the decoder's exception
Json(request) ==
    IF request.body.kind = "text" THEN JSONDecodeError ELSE Return("json", request.body)

\* process_request with the 'URL: %s' line of the error paths left out
process_request_no_url(request) ==
    LET s == request.status_code
        lg == <<LogStatus("error", s), LogText("error", request.body)>>
    IN  IF s \in {200, 201} THEN [out |-> Json(request), log |-> << >>]
        ELSE IF s = 204 THEN [out |-> ReturnTrue, log |-> << >>]
        ELSE IF s = 401 THEN [out |-> ApiKeyError, log |-> << >>]
        ELSE IF 200 < s /\ s < 299
        THEN [out |-> UnexpectedSuccessError,
              log |-> <<LogStatus("warning", s), LogText("warning", request.body)>>]
        ELSE IF 400 <= s /\ s < 499 THEN [out |-> BogusRequestError, log |-> lg]
        ELSE IF 500 <= s /\ s < 599 THEN [out |-> ServerProblemError, log |-> lg]
        ELSE [out |-> UnknownError, log |-> lg]

\* process_request(self, request): the outcome and the records it logs
process_request(request) ==
    LET s == request.status_code
        lg == <<LogStatus("error", s), LogUrl("error", request.url),
                LogText("error", request.body)>>
    IN  IF s \in {200, 201} THEN [out |-> Json(request), log |-> << >>]
        ELSE IF s = 204 THEN [out |-> ReturnTrue, log |-> << >>]
        ELSE IF s = 401 THEN [out |-> ApiKeyError, log |-> << >>]
        ELSE IF 200 < s /\ s < 299
        THEN [out |-> UnexpectedSuccessError,
              log |-> <<LogStatus("warning", s), LogText("warning", request.body)>>]
        ELSE IF 400 <= s /\ s < 499 THEN [out |-> BogusRequestError, log |-> lg]
        ELSE IF 500 <= s /\ s < 599 THEN [out |-> ServerProblemError, log |-> lg]
        ELSE [out |-> UnknownError, log |-> lg]

\* orders() that clears the cursor when the get raises
orders_result_clear_on_raise(result, held) ==
    IF result.kind = "raise" THEN [out |-> result, cursor |-> None]
    ELSE IF result.t = "bool" THEN [out |-> NotSubscriptable, cursor |-> held]
    ELSE IF result.v.kind # "envelope"
    THEN [out |-> KeyErrorOf("pagination"), cursor |-> held]
    ELSE [out |-> IF result.v.has_result THEN Return("list", result.v.result)
                  ELSE KeyErrorOf("result"),
          cursor |-> IF result.v.has_cursor THEN result.v.nextPageCursor ELSE None]

\* orders() that assigns the cursor only when the key nextPageCursor is there
orders_result_keep_if_absent(result, held) ==
    IF result.kind = "raise" THEN [out |-> result, cursor |-> held]
    ELSE IF result.t = "bool" THEN [out |-> NotSubscriptable, cursor |-> held]
    ELSE IF result.v.kind # "envelope"
    THEN [out |-> KeyErrorOf("pagination"), cursor |-> held]
    ELSE [out |-> IF result.v.has_result THEN Return("list", result.v.result)
                  ELSE KeyErrorOf("result"),
          cursor |-> IF result.v.has_cursor THEN result.v.nextPageCursor ELSE held]

\* orders() that reads result['result'] before it assigns the cursor
orders_result_result_first(result, held) ==
    IF result.kind = "raise" THEN [out |-> result, cursor |-> held]
    ELSE IF result.t = "bool" THEN [out |-> NotSubscriptable, cursor |-> held]
    ELSE IF result.v.kind # "envelope"
    THEN [out |-> KeyErrorOf("pagination"), cursor |-> held]
    ELSE IF ~result.v.has_result THEN [out |-> KeyErrorOf("result"), cursor |-> held]
    ELSE [out |-> Return("list", result.v.result),
          cursor |-> IF result.v.has_cursor THEN result.v.nextPageCursor ELSE None]

\* orders(): what it does with the result of self.get(uri, args), given the
\* cursor held before: the outcome and the cursor held afterwards
orders_result(result, held) ==
    IF result.kind = "raise" THEN [out |-> result, cursor |-> held]
    ELSE IF result.t = "bool" THEN [out |-> NotSubscriptable, cursor |-> held]
    ELSE IF result.v.kind # "envelope"
    THEN [out |-> KeyErrorOf("pagination"), cursor |-> held]
    ELSE [out |-> IF result.v.has_result THEN Return("list", result.v.result)
                  ELSE KeyErrorOf("result"),
          cursor |-> IF result.v.has_cursor THEN result.v.nextPageCursor ELSE None]

\* order() that keeps scanning after a match and returns the last one
RECURSIVE order_scan_last(_, _)
order_scan_last(list, order_number) ==
    IF list = << >> THEN ReturnNone
    ELSE IF Head(list).orderNumber = order_number
            /\ order_scan_last(Tail(list), order_number).kind = "return"
            /\ order_scan_last(Tail(list), order_number).t = "none"
    THEN Return("order", Head(list))
    ELSE order_scan_last(Tail(list), order_number)

\* order(): the scan of the list all_orders() returned, for order_number
RECURSIVE order_scan(_, _)
order_scan(list, order_number) ==
    IF list = << >> THEN ReturnNone
    ELSE IF Head(list).orderNumber = order_number THEN Return("order", Head(list))
    ELSE order_scan(Tail(list), order_number)

\* the value all_orders() hands to its caller: the list itself, or the
\* result of order()'s scan of it
all_orders_result(o, list) ==
    IF o.name = "all_orders" THEN Return("list", list)
    ELSE order_scan(list, o.order_number)

(***************************************************************************)
(* State.                                                                  *)
(***************************************************************************)
Runs == DOMAIN pc

\* a cursor that is an attribute of the class, shared by every client
cursor_slot_of_class(r) == 1

\* where the cursor a run reads and writes lives: self._next_page is an
\* attribute of the client the run uses
cursor_slot(r) == client_of[r]
Idle(r) == pc[r] = "idle"

Call(name, order_id, order_number, held) ==
    [name |-> name, order_id |-> order_id, order_number |-> order_number, held |-> held]
NoCall == Call("none", None, None, None)

InitOf(srv, runs, clients) ==
    /\ server = srv
    /\ client_of \in [runs -> clients]
    /\ _next_page = [c \in clients |-> None]
    /\ max_pages = [c \in clients |-> DefaultMaxPages]
    /\ pc = [r \in runs |-> "idle"]
    /\ op = [r \in runs |-> NoCall]
    /\ req = [r \in runs |-> NoRequest]
    /\ orders = [r \in runs |-> << >>]
    /\ count = [r \in runs |-> 0]
    /\ http = [r \in runs |-> << >>]
    /\ log = [r \in runs |-> << >>]
    /\ ret = [r \in runs |-> NoOutcome]

\* one client used by one thread, against an arbitrary server
Init == InitOf(AnyServer, {1}, {1})

(***************************************************************************)
(* Steps shared by the methods.                                            *)
(***************************************************************************)
\* a method is called by run r: the record of the call, with fresh locals
Begin(r, name, order_id, order_number) ==
    /\ Idle(r)
    /\ op' = [op EXCEPT ![r] = Call(name, order_id, order_number, _next_page[cursor_slot(r)])]
    /\ http' = [http EXCEPT ![r] = << >>]
    /\ orders' = [orders EXCEPT ![r] = << >>]
    /\ count' = [count EXCEPT ![r] = 0]

\* get(): the url is built and logged, and the request is sent
SendGet(r, path, cursor, lg) ==
    /\ req' = [req EXCEPT ![r] = Request("GET", path, cursor)]
    /\ log' = [log EXCEPT ![r] = lg \o <<LogUrl("debug", Url(path))>>]
    /\ ret' = [ret EXCEPT ![r] = NoOutcome]

\* the method of run r ends with outcome out
Done(r, out) ==
    /\ pc' = [pc EXCEPT ![r] = "idle"]
    /\ ret' = [ret EXCEPT ![r] = out]
    /\ req' = [req EXCEPT ![r] = NoRequest]

\* all_orders() returns list (and order() scans it)
Finish(r, list) ==
    /\ orders' = [orders EXCEPT ![r] = list]
    /\ Done(r, all_orders_result(op[r], list))

(***************************************************************************)
(* get and post.                                                           *)
(***************************************************************************)
Get(r, path, cursor) ==
    /\ Begin(r, "get", None, None)
    /\ SendGet(r, path, cursor, << >>)
    /\ pc' = [pc EXCEPT ![r] = "http"]
    /\ UNCHANGED <<server, client_of, _next_page, max_pages>>

Post(r, path) ==
    /\ Begin(r, "post", None, None)
    /\ req' = [req EXCEPT ![r] = Request("POST", path, None)]
    /\ log' = [log EXCEPT ![r] = <<LogUrl("debug", Url(path))>>]
    /\ ret' = [ret EXCEPT ![r] = NoOutcome]
    /\ pc' = [pc EXCEPT ![r] = "http"]
    /\ UNCHANGED <<server, client_of, _next_page, max_pages>>

\* the response to a get, a post or an order(order_id) arrives
RecvHttp(r, resp) ==
    /\ pc[r] = "http"
    /\ LET x == Exchange(req[r], resp)
           p == process_request(x)
       IN  /\ http' = [http EXCEPT ![r] = Append(@, x)]
           /\ log' = [log EXCEPT ![r] = @ \o p.log]
           /\ Done(r, p.out)
    /\ UNCHANGED <<server, client_of, _next_page, max_pages, op, orders, count>>

(***************************************************************************)
(* order, orders, next_page.                                               *)
(***************************************************************************)
\* order() that tests order_number before order_id
order_branch_number_first(order_id, order_number) ==
    IF Truthy(order_number) THEN "order_number"
    ELSE IF Truthy(order_id) THEN "order_id"
    ELSE "neither"

\* order(): which branch is taken for the selectors given
order_branch(order_id, order_number) ==
    IF Truthy(order_id) THEN "order_id"
    ELSE IF Truthy(order_number) THEN "order_number"
    ELSE "neither"

Order(r, order_id, order_number) ==
    /\ Begin(r, "order", order_id, order_number)
    /\ IF order_branch(order_id, order_number) = "order_id"
       THEN /\ SendGet(r, "commerce/orders/" \o order_id, None, << >>)
            /\ pc' = [pc EXCEPT ![r] = "http"]
       ELSE IF order_branch(order_id, order_number) = "order_number"
       THEN /\ max_pages[client_of[r]] <= MaxPagesBound
            /\ SendGet(r, "commerce/orders", None, << >>)
            /\ pc' = [pc EXCEPT ![r] = "ao_first"]
       ELSE /\ Done(r, SelectorError)
            /\ log' = [log EXCEPT ![r] = << >>]
    /\ UNCHANGED <<server, client_of, _next_page, max_pages>>

Orders(r, cursor) ==
    /\ Begin(r, "orders", None, None)
    /\ SendGet(r, "commerce/orders", cursor, << >>)
    /\ pc' = [pc EXCEPT ![r] = "orders"]
    /\ UNCHANGED <<server, client_of, _next_page, max_pages>>

NextPage(r) ==
    /\ Begin(r, "next_page", None, None)
    /\ IF Truthy(_next_page[cursor_slot(r)])
       THEN /\ SendGet(r, "commerce/orders", _next_page[cursor_slot(r)], << >>)
            /\ pc' = [pc EXCEPT ![r] = "orders"]
       ELSE /\ Done(r, ReturnNone)
            /\ log' = [log EXCEPT ![r] = << >>]
    /\ UNCHANGED <<server, client_of, _next_page, max_pages>>

\* the response to the get of orders() arrives (called directly or by next_page)
RecvOrders(r, resp) ==
    /\ pc[r] = "orders"
    /\ LET x == Exchange(req[r], resp)
           p == process_request(x)
           o == orders_result(p.out, _next_page[cursor_slot(r)])
       IN  /\ http' = [http EXCEPT ![r] = Append(@, x)]
           /\ log' = [log EXCEPT ![r] = @ \o p.log]
           /\ _next_page' = [_next_page EXCEPT ![cursor_slot(r)] = o.cursor]
           /\ Done(r, o.out)
    /\ UNCHANGED <<server, client_of, max_pages, op, orders, count>>

(***************************************************************************)
(* all_orders.                                                             *)
(***************************************************************************)
\* all_orders() is called: its first statement is orders().  The runs of
\* the model start it only with max_pages overridden to at most MaxPagesBound.
AllOrders(r) ==
    /\ Begin(r, "all_orders", None, None)
    /\ max_pages[client_of[r]] <= MaxPagesBound
    /\ SendGet(r, "commerce/orders", None, << >>)
    /\ pc' = [pc EXCEPT ![r] = "ao_first"]
    /\ UNCHANGED <<server, client_of, _next_page, max_pages>>

\* the response to the first orders() arrives; count = 0
RecvFirst(r, resp) ==
    /\ pc[r] = "ao_first"
    /\ LET x == Exchange(req[r], resp)
           p == process_request(x)
           o == orders_result(p.out, _next_page[cursor_slot(r)])
       IN  /\ http' = [http EXCEPT ![r] = Append(@, x)]
           /\ log' = [log EXCEPT ![r] = @ \o p.log]
           /\ _next_page' = [_next_page EXCEPT ![cursor_slot(r)] = o.cursor]
           /\ IF o.out.kind = "raise"
              THEN /\ Done(r, o.out)
                   /\ UNCHANGED <<orders, count>>
              ELSE /\ orders' = [orders EXCEPT ![r] = o.out.v]
                   /\ count' = [count EXCEPT ![r] = 0]
                   /\ pc' = [pc EXCEPT ![r] = "ao_test"]
                   /\ req' = [req EXCEPT ![r] = NoRequest]
                   /\ UNCHANGED ret
    /\ UNCHANGED <<server, client_of, max_pages, op>>

\* while self._next_page: count += 1
LoopTest(r) ==
    /\ pc[r] = "ao_test"
    /\ IF Truthy(_next_page[cursor_slot(r)])
       THEN /\ count' = [count EXCEPT ![r] = @ + 1]
            /\ pc' = [pc EXCEPT ![r] = "ao_call"]
            /\ UNCHANGED <<orders, ret, req>>
       ELSE /\ Finish(r, orders[r])
            /\ UNCHANGED count
    /\ UNCHANGED <<server, client_of, _next_page, max_pages, op, http, log>>

\* orders.extend(self.next_page()): next_page() tests the cursor and calls
\* orders(cursor=...), or returns None, which extend() cannot iterate.  The
\* test and the read of the argument are one step, apart from the test of
\* the while loop (LoopTest).
LoopNextPage(r) ==
    /\ pc[r] = "ao_call"
    /\ IF Truthy(_next_page[cursor_slot(r)])
       THEN /\ SendGet(r, "commerce/orders", _next_page[cursor_slot(r)], log[r])
            /\ pc' = [pc EXCEPT ![r] = "ao_next"]
       ELSE /\ Done(r, NotIterable)
            /\ UNCHANGED log
    /\ UNCHANGED <<server, client_of, _next_page, max_pages, op, http, orders, count>>

\* the response to next_page()'s orders() arrives; the list is extended and
\* count is compared to max_pages
RecvNext(r, resp) ==
    /\ pc[r] = "ao_next"
    /\ LET x == Exchange(req[r], resp)
           p == process_request(x)
           o == orders_result(p.out, _next_page[cursor_slot(r)])
       IN  /\ http' = [http EXCEPT ![r] = Append(@, x)]
           /\ _next_page' = [_next_page EXCEPT ![cursor_slot(r)] = o.cursor]
           /\ IF o.out.kind = "raise"
              THEN /\ Done(r, o.out)
                   /\ log' = [log EXCEPT ![r] = @ \o p.log]
                   /\ UNCHANGED orders
              ELSE IF count[r] >= max_pages[client_of[r]]
              THEN /\ log' = [log EXCEPT ![r] =
                                 @ \o p.log \o <<LogMaxPages(max_pages[client_of[r]])>>]
                   /\ Finish(r, orders[r] \o o.out.v)
              ELSE /\ orders' = [orders EXCEPT ![r] = @ \o o.out.v]
                   /\ log' = [log EXCEPT ![r] = @ \o p.log]
                   /\ pc' = [pc EXCEPT ![r] = "ao_test"]
                   /\ req' = [req EXCEPT ![r] = NoRequest]
                   /\ UNCHANGED ret
    /\ UNCHANGED <<server, client_of, max_pages, op, count>>

\* the consumer overrides max_pages on the client
SetMaxPages(r, n) ==
    /\ Begin(r, "max_pages", None, None)
    /\ max_pages' = [max_pages EXCEPT ![client_of[r]] = n]
    /\ log' = [log EXCEPT ![r] = << >>]
    /\ ret' = [ret EXCEPT ![r] = NoOutcome]
    /\ UNCHANGED <<server, client_of, _next_page, pc, req>>

(***************************************************************************)
(* Specifications.                                                         *)
(***************************************************************************)
DoGet == \E r \in Runs, id \in OrderIds : Get(r, "commerce/orders/" \o id, None)
DoPost == \E r \in Runs, id \in OrderIds :
              Post(r, "commerce/orders/" \o id \o "/fulfillments")
DoOrder == \E r \in Runs, id \in OrderIds \cup {None, ""},
              n \in OrderNumbers \cup {None, ""} : Order(r, id, n)
DoOrders == \E r \in Runs, c \in Cursors \cup {None} : Orders(r, c)
DoNextPage == \E r \in Runs : NextPage(r)
DoAllOrders == \E r \in Runs : AllOrders(r)
DoSetMaxPages == \E r \in Runs, n \in 0..MaxPagesBound : SetMaxPages(r, n)
DoRecvHttp == \E r \in Runs : \E resp \in ServerResponses(req[r]) : RecvHttp(r, resp)
DoRecvOrders == \E r \in Runs : \E resp \in ServerResponses(req[r]) : RecvOrders(r, resp)
DoRecvFirst == \E r \in Runs : \E resp \in ServerResponses(req[r]) : RecvFirst(r, resp)
DoLoopTest == \E r \in Runs : LoopTest(r)
DoLoopNextPage == \E r \in Runs : LoopNextPage(r)
DoRecvNext == \E r \in Runs : \E resp \in ServerResponses(req[r]) : RecvNext(r, resp)

\* single-threaded use of one client
Next ==
    \/ DoGet
    \/ DoPost
    \/ DoOrder
    \/ DoOrders
    \/ DoNextPage
    \/ DoAllOrders
    \/ DoSetMaxPages
    \/ DoRecvHttp
    \/ DoRecvOrders
    \/ DoRecvFirst
    \/ DoLoopTest
    \/ DoLoopNextPage
    \/ DoRecvNext

Spec == Init /\ [][Next]_vars

\* the classifier on every status code: get and post against a server that
\* answers with any status
InitClassify == InitOf(EveryStatusServer, {1}, {1})

NextClassify ==
    \/ DoGet
    \/ DoPost
    \/ DoRecvHttp

SpecClassify == InitClassify /\ [][NextClassify]_vars

\* single-threaded use of one client against a server that holds a listing
InitListing == \E l \in Listings : InitOf(ListingServer(l), {1}, {1})

SpecListing == InitListing /\ [][Next]_vars

\* two threads that run all_orders() against a server that holds a listing,
\* on one client they share or on a client each
ConcListing(n) == [k \in 1..n |-> IF k % 2 = 1 THEN <<O1, O2>> ELSE <<O3, O1>>]

InitConc ==
    /\ \E n \in 0..MaxListing : InitOf(ListingServer(ConcListing(n)), {1, 2}, {1, 2})
    /\ client_of[1] = 1

NextConc ==
    \/ DoAllOrders
    \/ DoSetMaxPages
    \/ DoRecvFirst
    \/ DoLoopTest
    \/ DoLoopNextPage
    \/ DoRecvNext

SpecConc == InitConc /\ [][NextConc]_vars

(***************************************************************************)
(* Properties.                                                             *)
(***************************************************************************)
\* two outcomes are the same outcome
Same(a, b) == a.kind = b.kind /\ a.t = b.t /\ a.v = b.v

\* run r has completed a get or a post, and x is its exchange
Classified(r) == op[r].name \in {"get", "post"} /\ Idle(r) /\ Len(http[r]) = 1

\* some record of the log of run r has the given kind and content
HasLogged(r, kind, status, url, text) ==
    \E i \in 1..Len(log[r]) :
        /\ log[r][i].kind = kind
        /\ log[r][i].status = status
        /\ log[r][i].url = url
        /\ log[r][i].text = text

\* C5: for every status code s handed to the classifier by get or post:
\* 401 raises the authentication error, every s in 400..499 but 401 raises the
\* client-request error, every s in 500..599 raises the server error, the
\* error kinds differ from each other and from the unknown-response error,
\* and none of these statuses yields a return value.
C5_ErrorStatuses ==
    \A r \in Runs : Classified(r) =>
        LET s == http[r][1].status_code
        IN  /\ s = 401 => Same(ret[r], ApiKeyError)
            /\ (s \in 400..499 /\ s # 401) => Same(ret[r], BogusRequestError)
            /\ s \in 500..599 => Same(ret[r], ServerProblemError)
            /\ s \in 400..599 => ret[r].kind = "raise"
            /\ Cardinality({ApiKeyError, BogusRequestError, ServerProblemError,
                            UnknownError}) = 4

\* C6: for every 2xx status code s: 200 and 201 return the parsed JSON body
\* unchanged, 204 returns True whatever the body, and every other s in
\* 202..299 raises the unexpected-success error and no other.
C6_SuccessStatuses ==
    \A r \in Runs : Classified(r) =>
        LET x == http[r][1]
            s == x.status_code
        IN  /\ (s \in {200, 201} /\ x.body.kind # "text") =>
                   /\ ret[r].kind = "return"
                   /\ ret[r].t = "json"
                   /\ ret[r].v = x.body
            /\ s = 204 => Same(ret[r], ReturnTrue)
            /\ (s \in 202..299 /\ s # 204) => Same(ret[r], UnexpectedSuccessError)

\* run r has completed a get or a post whose response the classifier failed
ClassifierFailed(r) ==
    /\ Classified(r)
    /\ ret[r].kind = "raise"
    /\ http[r][1].status_code \notin {200, 201}

Max(S) == CHOOSE m \in S : \A k \in S : k <= m

\* exchange x is a GET of the order list
IsList(x) == x.method = "GET" /\ x.path = "commerce/orders"

\* the classifier returned the body of exchange x and the body has a
\* pagination object
Accepted(x) == x.status_code \in {200, 201} /\ x.body.kind = "envelope"

\* the response of exchange x is one the classifier fails
Failure(x) == x.status_code \notin {200, 201, 204}

\* the pagination.nextPageCursor of the body of x, None when it has none
CursorIn(x) == IF x.body.has_cursor THEN x.body.nextPageCursor ELSE None

\* the pages of a sequence of exchanges, concatenated in order
RECURSIVE PagesOf(_)
PagesOf(h) == IF h = << >> THEN << >> ELSE Head(h).body.result \o PagesOf(Tail(h))

\* C1: with max_pages = N >= 1 and a server whose every orders response
\* carries a nextPageCursor, an all_orders() call stops after exactly N page
\* fetches (the first one counted), logs the max_pages warning and returns
\* the concatenation of those N pages in fetch order.
C1_StopsAfterMaxPages ==
    \A r \in Runs :
        (/\ op[r].name = "all_orders"
         /\ Idle(r)
         /\ ret[r].kind = "return"
         /\ max_pages[client_of[r]] >= 1
         /\ \A i \in 1..Len(http[r]) :
                /\ Accepted(http[r][i])
                /\ http[r][i].body.has_result
                /\ Truthy(CursorIn(http[r][i])))
        => /\ Len(http[r]) = max_pages[client_of[r]]
           /\ HasLogged(r, "max_pages", max_pages[client_of[r]], "", TextBody)
           /\ ret[r].v = PagesOf(http[r])

\* C2 as claimed: the held cursor is the pagination.nextPageCursor of the
\* response to the most recent GET of the order list, None when that
\* response carried none, also when the response was classified as a
\* failure; a call that issues no such GET leaves the cursor as it was.
\* (An empty cursor counts as none here.)
C2_CursorOfLastListCall ==
    \A r \in Runs :
        LET L == {i \in 1..Len(http[r]) : IsList(http[r][i])}
        IN  IF L = {} THEN _next_page[client_of[r]] = op[r].held
            ELSE LET x == http[r][Max(L)]
                 IN  (Accepted(x) \/ Failure(x)) =>
                         IF x.body.kind = "envelope" /\ Truthy(CursorIn(x))
                         THEN _next_page[client_of[r]] = CursorIn(x)
                         ELSE ~Truthy(_next_page[client_of[r]])

\* C2 as amended: the held cursor is the pagination.nextPageCursor (None
\* when the key is absent) of the response to the most recent GET of the
\* order list whose response the classifier returned (200, 201) with a
\* pagination object in it; a list call whose response is classified as a
\* failure or has no such body leaves the cursor as it was, and so does
\* every other operation.
C2_CursorOfLastAcceptedListCall ==
    \A r \in Runs :
        LET A == {i \in 1..Len(http[r]) : IsList(http[r][i]) /\ Accepted(http[r][i])}
        IN  IF A = {} THEN _next_page[client_of[r]] = op[r].held
            ELSE _next_page[client_of[r]] = CursorIn(http[r][Max(A)])

\* C2 witness: next_page() was called with a cursor held, its response was
\* classified as a failure, and the cursor is still held
C2_Witness ==
    \E r \in Runs :
        /\ op[r].name = "next_page"
        /\ Idle(r)
        /\ Len(http[r]) = 1
        /\ http[r][1].status_code = 500
        /\ op[r].held = "c1"
        /\ _next_page[client_of[r]] = "c1"

\* C3: an orders() call whose response envelope has no nextPageCursor key
\* sets the held cursor to None whatever was held before; a next_page() call
\* made while no cursor is held returns None and issues no HTTP call; and no
\* cursor is held before the first call on a client.
C3_ClearedCursor ==
    \A r \in Runs :
        /\ (/\ http[r] # << >>
            /\ IsList(http[r][Len(http[r])])
            /\ Accepted(http[r][Len(http[r])])
            /\ ~http[r][Len(http[r])].body.has_cursor)
           => _next_page[client_of[r]] = None
        /\ (op[r].name = "next_page" /\ ~Truthy(op[r].held))
           => /\ Idle(r)
              /\ Same(ret[r], ReturnNone)
              /\ http[r] = << >>
              /\ req[r] = NoRequest
              /\ _next_page[client_of[r]] = op[r].held
        /\ op[r].name = "none" => _next_page[client_of[r]] = None

\* C3 witness: a cursor was held, the response to next_page() had no
\* nextPageCursor key, and the cursor is None
C3_Witness ==
    \E r \in Runs :
        /\ op[r].name = "next_page"
        /\ Idle(r)
        /\ op[r].held = "c2"
        /\ Len(http[r]) = 1
        /\ Accepted(http[r][1])
        /\ ~http[r][1].body.has_cursor
        /\ _next_page[client_of[r]] = None

\* C8: order() with order_id = X (with or without order_number) issues
\* exactly one GET, to commerce/orders/X, returns that response as
\* classified and never enters all_orders(); order() with neither selector
\* raises the selector error without any HTTP call and without changing the
\* cursor.
C8_OrderDispatch ==
    \A r \in Runs : op[r].name = "order" =>
        /\ Truthy(op[r].order_id) =>
              /\ pc[r] \in {"http", "idle"}
              /\ orders[r] = << >>
              /\ _next_page[client_of[r]] = op[r].held
              /\ pc[r] = "http" =>
                    /\ http[r] = << >>
                    /\ req[r].method = "GET"
                    /\ req[r].url = "https://api.squarespace.com/0.1/commerce/orders/"
                                        \o op[r].order_id
              /\ pc[r] = "idle" =>
                    /\ Len(http[r]) = 1
                    /\ http[r][1].method = "GET"
                    /\ http[r][1].url = "https://api.squarespace.com/0.1/commerce/orders/"
                                            \o op[r].order_id
                    /\ Same(ret[r], process_request(http[r][1]).out)
        /\ (~Truthy(op[r].order_id) /\ ~Truthy(op[r].order_number)) =>
              /\ Idle(r)
              /\ Same(ret[r], SelectorError)
              /\ http[r] = << >>
              /\ req[r] = NoRequest
              /\ _next_page[client_of[r]] = op[r].held

\* C8 witness: order() was called with both selectors and has returned the
\* body of its one GET
C8_Witness ==
    \E r \in Runs :
        /\ op[r].name = "order"
        /\ op[r].order_id = "X"
        /\ op[r].order_number = "1001"
        /\ Idle(r)
        /\ Len(http[r]) = 1
        /\ ret[r].kind = "return"
        /\ ret[r].t = "json"

\* C10: when the response to a page fetch of all_orders() (the first or a
\* later one) is classified as a failure, the call ends at once with that
\* error: no request is left or sent, no list is returned, and the held
\* cursor is not changed by the failed fetch.
C10_FailureEndsAllOrders ==
    [][\A r \in Runs :
          (/\ pc[r] \in {"ao_first", "ao_next"}
           /\ Len(http'[r]) = Len(http[r]) + 1
           /\ Failure(http'[r][Len(http'[r])]))
          => /\ pc'[r] = "idle"
             /\ req'[r] = NoRequest
             /\ ret'[r].kind = "raise"
             /\ ret'[r].t \in {"ValueError", "NotImplementedError", "RuntimeError"}
             /\ orders'[r] = orders[r]
             /\ _next_page' = _next_page]_vars

\* C10 witness: the second page fetch of an all_orders() failed, and the
\* cursor stored by the first fetch is still held
C10_Witness ==
    \E r \in Runs :
        /\ op[r].name = "all_orders"
        /\ Idle(r)
        /\ Len(http[r]) = 2
        /\ Failure(http[r][2])
        /\ ret[r].kind = "raise"
        /\ Truthy(CursorIn(http[r][1]))
        /\ _next_page[client_of[r]] = CursorIn(http[r][1])

\* the pages of a listing, concatenated in order
RECURSIVE Flatten(_)
Flatten(l) == IF l = << >> THEN << >> ELSE Head(l) \o Flatten(Tail(l))

\* the pages a server in mode "listing" serves: an empty listing is served
\* as one empty page
ServedPages == IF server.pages = << >> THEN << << >> >> ELSE server.pages

\* outcome out is the first order of list F whose orderNumber is n, and is
\* None exactly when F has none
FirstMatch(out, F, n) ==
    LET M == {i \in 1..Len(F) : F[i].orderNumber = n}
    IN  IF M = {} THEN Same(out, ReturnNone)
        ELSE /\ out.kind = "return"
             /\ out.t = "order"
             /\ out.v = F[CHOOSE i \in M : \A k \in M : i <= k]

\* run r has returned from order(order_number=n), called without order_id
ScanReturned(r) ==
    /\ op[r].name = "order"
    /\ ~Truthy(op[r].order_id)
    /\ Truthy(op[r].order_number)
    /\ Idle(r)
    /\ ret[r].kind = "return"

\* C4 as claimed: whatever the server's pages and max_pages,
\* order(order_number=n) returns the first order, in page order, whose
\* orderNumber is n, and None only if no page of the server has one.
C4_FirstMatchOfAllPages ==
    \A r \in Runs :
        (ScanReturned(r) /\ op[r].order_id = None /\ max_pages[client_of[r]] >= 1) =>
        FirstMatch(ret[r], Flatten(ServedPages), op[r].order_number)

\* C4 as amended: order(order_number=n) returns the first order whose
\* orderNumber is n among the pages all_orders() fetched, which are the
\* leading pages of the server's sequence in order, and None only if none of
\* the fetched pages has one; pages all_orders() did not fetch are not
\* examined.
C4_FirstMatchOfFetchedPages ==
    \A r \in Runs : ScanReturned(r) =>
        /\ Len(http[r]) \in 1..Len(ServedPages)
        /\ \A i \in 1..Len(http[r]) : http[r][i].body.result = ServedPages[i]
        /\ FirstMatch(ret[r], Flatten(SubSeq(ServedPages, 1, Len(http[r]))),
                      op[r].order_number)

\* C4 witness: order(order_number=n) returned None although a page that
\* all_orders() did not fetch has an order with that number
C4_Witness ==
    \E r \in Runs :
        /\ ScanReturned(r)
        /\ Same(ret[r], ReturnNone)
        /\ \E i \in 1..Len(Flatten(ServedPages)) :
               Flatten(ServedPages)[i].orderNumber = op[r].order_number

\* no other run uses the client of run r
OwnClient(r) == \A q \in Runs \ {r} : client_of[q] # client_of[r]

\* the all_orders() of run r has fetched the leading pages of the listing in
\* order, each with the cursor of its own previous response, has not failed,
\* and returns their in-order concatenation, after the last page or at the
\* max_pages test
InOwnOrder(r) ==
    /\ Len(http[r]) <= Len(ServedPages)
    /\ \A i \in 1..Len(http[r]) :
           /\ http[r][i].cursor = IF i = 1 THEN None ELSE CursorOf(i)
           /\ http[r][i].body.result = ServedPages[i]
    /\ pc[r] = "ao_next" => req[r].cursor = CursorOf(Len(http[r]) + 1)
    /\ ret[r].kind # "raise"
    /\ (Idle(r) /\ ret[r].kind = "return") =>
           /\ ret[r].v = Flatten(SubSeq(ServedPages, 1, Len(http[r])))
           /\ \/ Len(http[r]) = Len(ServedPages)
              \/ count[r] >= max_pages[client_of[r]]

\* C9: the cursor is one per client.  A run of all_orders() on a client no
\* other run uses fetches its own page sequence in order under every
\* interleaving; two runs interleaved on one client reach a state in which a
\* run has fetched a page with a cursor the other run's response stored (the
\* witness).
C9_OwnClientInOrder ==
    \A r \in Runs : (op[r].name = "all_orders" /\ OwnClient(r)) => InOwnOrder(r)

\* C9 witness: on a shared client a run of all_orders() has returned a list
\* that is not the in-order concatenation of the pages of its own sequence
C9_Witness ==
    \E r \in Runs :
        /\ op[r].name = "all_orders"
        /\ ~OwnClient(r)
        /\ Idle(r)
        /\ ret[r].kind = "return"
        /\ \E i \in 1..Len(http[r]) :
               http[r][i].cursor # IF i = 1 THEN None ELSE CursorOf(i)
        /\ \A k \in 0..Len(ServedPages) :
               ret[r].v # Flatten(SubSeq(ServedPages, 1, k))

====
